---- MODULE Spec2Model ----
(***************************************************************************)
(* A verification model of the data-structure programs of the repository:  *)
(* string matching (串.cpp), the sorting files (排序/), the n-dimensional   *)
(* Array (数组.cpp), the AVL tree (动态表查找.cpp), the two queues          *)
(* (队列.cpp), the open-addressing hash table (哈希表.cpp) and the Huffman  *)
(* tree (哈夫曼树与哈夫曼编码.cpp).  The programs are independent, so each   *)
(* has its own variables and its own specification; a specification holds  *)
(* the variables of the other programs at their idle values.               *)
(***************************************************************************)
EXTENDS Integers, Sequences, FiniteSets, TLC

VARIABLES
    textT, patP, startPos, kmpResult, simpleResult,
    sortIn, sortAlg, sortArg, sortOut, sortExc,
    arrState, dim, bounds, constants, total, arrSubs, arrAccess,
    rootAVL, avlInserted, avlPrev, avlLastKey,
    qKind, lq, cq, qHist, qOp, qArg, qRet, qVal, qPrevHist, qPrevLen, qVisited,
    ht, htOp, htKey, htRet,
    huffTree, huffText, huffBits, huffBack,
    sm, smDense, smOp, smRet, destSimple, destFast,
    td, tdDense, tdOp, tdRes,
    dag, topoRes,
    aoe, cpRes

strVars == <<textT, patP, startPos, kmpResult, simpleResult>>
sortVars == <<sortIn, sortAlg, sortArg, sortOut, sortExc>>
arrVars == <<arrState, dim, bounds, constants, total, arrSubs, arrAccess>>
avlVars == <<rootAVL, avlInserted, avlPrev, avlLastKey>>
queueVars == <<qKind, lq, cq, qHist, qOp, qArg, qRet, qVal, qPrevHist, qPrevLen, qVisited>>
hashVars == <<ht, htOp, htKey, htRet>>
huffVars == <<huffTree, huffText, huffBits, huffBack>>
sparseVars == <<sm, smDense, smOp, smRet, destSimple, destFast>>
tdVars == <<td, tdDense, tdOp, tdRes>>
topoVars == <<dag, topoRes>>
aoeVars == <<aoe, cpRes>>

vars == <<strVars, sortVars, arrVars, avlVars, queueVars, hashVars, huffVars, sparseVars,
          tdVars, topoVars, aoeVars>>

\* What each program leaves alone: the variables of the other programs.
strOthers == <<sortVars, arrVars, avlVars, queueVars, hashVars,
    huffVars, sparseVars, tdVars, topoVars, aoeVars>>
sortOthers == <<strVars, arrVars, avlVars, queueVars, hashVars,
    huffVars, sparseVars, tdVars, topoVars, aoeVars>>
arrOthers == <<strVars, sortVars, avlVars, queueVars, hashVars,
    huffVars, sparseVars, tdVars, topoVars, aoeVars>>
avlOthers == <<strVars, sortVars, arrVars, queueVars, hashVars,
    huffVars, sparseVars, tdVars, topoVars, aoeVars>>
queueOthers == <<strVars, sortVars, arrVars, avlVars, hashVars,
    huffVars, sparseVars, tdVars, topoVars, aoeVars>>
hashOthers == <<strVars, sortVars, arrVars, avlVars, queueVars,
    huffVars, sparseVars, tdVars, topoVars, aoeVars>>
huffOthers == <<strVars, sortVars, arrVars, avlVars, queueVars,
    hashVars, sparseVars, tdVars, topoVars, aoeVars>>
sparseOthers == <<strVars, sortVars, arrVars, avlVars, queueVars,
    hashVars, huffVars, tdVars, topoVars, aoeVars>>
tdOthers == <<strVars, sortVars, arrVars, avlVars, queueVars,
    hashVars, huffVars, sparseVars, topoVars, aoeVars>>
topoOthers == <<strVars, sortVars, arrVars, avlVars, queueVars,
    hashVars, huffVars, sparseVars, tdVars, aoeVars>>
aoeOthers == <<strVars, sortVars, arrVars, avlVars, queueVars,
    hashVars, huffVars, sparseVars, tdVars, topoVars>>

\* A result slot: empty until a call fills it with the value it returned.
NotRun == <<>>
Ret(v) == <<v>>

\* C++ integer division truncates toward zero.
CDiv(a, b) ==
    IF (a >= 0) = (b > 0) THEN (IF a >= 0 THEN a ELSE -a) \div (IF b > 0 THEN b ELSE -b)
    ELSE -((IF a >= 0 THEN a ELSE -a) \div (IF b > 0 THEN b ELSE -b))

\* All sequences over S of length 0..n.
SeqsUpTo(S, n) == UNION {[1..k -> S] : k \in 0..n}

(***************************************************************************)
(* 串.cpp: CharString, SimpleIndex, KMP_GetNext, Index_KMP                  *)
(***************************************************************************)
MaxTextLen == 4
MaxPatLen == 3
Alphabet == {"a", "b"}

\* CharString::Length
Length(s) == Len(s)

\* CharString::operator[] with the 0-based position of the code.
CharAt(s, i) == s[i + 1]

RECURSIVE SimpleIndexLoop(_, _, _, _, _)
SimpleIndexLoop(T, P, startP, i, j) ==
    IF i < Length(T) /\ j < Length(P)
    THEN IF CharAt(T, i) = CharAt(P, j)
         THEN SimpleIndexLoop(T, P, startP, i + 1, j + 1)
         ELSE SimpleIndexLoop(T, P, startP + 1, startP + 1, 0)
    ELSE IF j >= Length(P) THEN startP ELSE -1

SimpleIndex(T, P, pos) == SimpleIndexLoop(T, P, pos, pos, 0)

RECURSIVE GetNextLoop(_, _, _, _)
GetNextLoop(P, i, j, next) ==
    IF i < Length(P)
    THEN IF j = -1 \/ CharAt(P, i) = CharAt(P, j)
         THEN GetNextLoop(P, i + 1, j + 1, [next EXCEPT ![i + 1] = j + 1])
         ELSE GetNextLoop(P, i, next[j], next)
    ELSE next

\* A next table that never falls back to a border of the pattern: every
\* mismatch restarts the pattern from its first character.
KMP_GetNextNoBorder(P) == [k \in 0..Length(P) |-> IF k = 0 THEN -1 ELSE 0]

\* next[0] = -1 and next has P.Length() + 1 entries, indexed from 0.
KMP_GetNext(P) ==
    GetNextLoop(P, 0, -1, [k \in 0..Length(P) |-> IF k = 0 THEN -1 ELSE 0])

RECURSIVE IndexKMPLoop(_, _, _, _, _)
IndexKMPLoop(T, P, next, i, j) ==
    IF i < Length(T) /\ j < Length(P)
    THEN IF j = -1 \/ CharAt(T, i) = CharAt(P, j)
         THEN IndexKMPLoop(T, P, next, i + 1, j + 1)
         ELSE IndexKMPLoop(T, P, next, i, next[j])
    ELSE IF j >= Length(P) THEN i - Length(P) ELSE -1

Index_KMP(T, P, pos) ==
    IF Length(P) = 0 THEN pos
    ELSE IndexKMPLoop(T, P, KMP_GetNext(P), pos, 0)

StrInit ==
    /\ textT \in SeqsUpTo(Alphabet, MaxTextLen)
    /\ patP \in SeqsUpTo(Alphabet, MaxPatLen)
    /\ startPos \in 0..Len(textT)
    /\ kmpResult = NotRun
    /\ simpleResult = NotRun

StrIdle ==
    /\ textT = <<>>
    /\ patP = <<>>
    /\ startPos = 0
    /\ kmpResult = NotRun
    /\ simpleResult = NotRun

CallIndexKMP ==
    /\ kmpResult = NotRun
    /\ kmpResult' = Ret(Index_KMP(textT, patP, startPos))
    /\ UNCHANGED <<textT, patP, startPos, simpleResult, strOthers>>

CallSimpleIndex ==
    /\ simpleResult = NotRun
    /\ simpleResult' = Ret(SimpleIndex(textT, patP, startPos))
    /\ UNCHANGED <<textT, patP, startPos, kmpResult, strOthers>>

StrNext == CallIndexKMP \/ CallSimpleIndex

\* P occurs in T at the 0-based index i.
OccursAt(T, P, i) ==
    /\ i + Len(P) <= Len(T)
    /\ \A k \in 1..Len(P) : T[i + k] = P[k]

FirstOccurrence(T, P, pos) ==
    IF \E i \in pos..Len(T) : OccursAt(T, P, i)
    THEN CHOOSE i \in pos..Len(T) :
             /\ OccursAt(T, P, i)
             /\ \A h \in pos..(i - 1) : ~OccursAt(T, P, h)
    ELSE -1

\* C1: Index_KMP(T, P, pos) and SimpleIndex(T, P, pos) each return the
\* smallest index i >= pos at which P occurs in T, or -1 when there is none.
C1_FirstOccurrence ==
    /\ kmpResult # NotRun => kmpResult = Ret(FirstOccurrence(textT, patP, startPos))
    /\ simpleResult # NotRun => simpleResult = Ret(FirstOccurrence(textT, patP, startPos))

\* Both searches ran from a position past the start, over a prefix of the
\* pattern that matched and then failed, and found the pattern further on.
C1_Witness ==
    /\ kmpResult # NotRun /\ simpleResult # NotRun
    /\ startPos > 0 /\ Len(patP) >= 2
    /\ kmpResult[1] > startPos
    /\ textT[startPos + 1] = patP[1]

(***************************************************************************)
(* 排序/: the sorting functions.  An array elem[0..n-1] is a function over  *)
(* 0..n-1; every loop of the code is a recursive operator over the loop's  *)
(* variables.                                                              *)
(***************************************************************************)
MaxSortLen == 4
MaxKey == 2
MaxIncr == 3
MaxIncs == 2
MaxRadix == 3

Keys == (-1)..MaxKey
ArraysOfLen(n) == [0..(n - 1) -> Keys]
SortInputs == UNION {ArraysOfLen(n) : n \in 0..MaxSortLen}
ArrLen(a) == Cardinality(DOMAIN a)

\* std::swap(elem[i], elem[j]) and the three-assignment swap through temp.
Swap(elem, i, j) == [elem EXCEPT ![i] = elem[j], ![j] = elem[i]]

\* ---- 交换排序.cpp ----
RECURSIVE BubbleInner(_, _, _, _)
BubbleInner(elem, n, i, j) ==
    IF j < n - i
    THEN BubbleInner(IF elem[j] > elem[j + 1] THEN Swap(elem, j, j + 1) ELSE elem,
                     n, i, j + 1)
    ELSE elem

RECURSIVE BubbleOuter(_, _, _)
BubbleOuter(elem, n, i) ==
    IF i < n THEN BubbleOuter(BubbleInner(elem, n, i, 0), n, i + 1) ELSE elem

BubbleSort(elem, n) == BubbleOuter(elem, n, 1)

RECURSIVE ScanHigh(_, _, _, _)
ScanHigh(elem, low, high, pivot) ==
    IF low < high /\ elem[high] >= pivot THEN ScanHigh(elem, low, high - 1, pivot)
    ELSE high

RECURSIVE ScanLow(_, _, _, _)
ScanLow(elem, low, high, pivot) ==
    IF low < high /\ elem[low] <= pivot THEN ScanLow(elem, low + 1, high, pivot)
    ELSE low

\* The outer while of Partition; the result is <<elem, pivot position>>.
RECURSIVE PartitionLoop(_, _, _, _)
PartitionLoop(elem, low, high, pivot) ==
    IF low < high
    THEN LET h == ScanHigh(elem, low, high, pivot)
             e1 == [elem EXCEPT ![low] = elem[h]]
             l == ScanLow(e1, low, h, pivot)
             e2 == [e1 EXCEPT ![h] = e1[l]]
         IN PartitionLoop(e2, l, h, pivot)
    ELSE <<[elem EXCEPT ![low] = pivot], low>>

\* A partition that takes its pivot from the other end of the range while
\* the hole is still at low, and so overwrites elem[low] without saving it.
PartitionPivotFromHigh(elem, low, high) == PartitionLoop(elem, low, high, elem[high])

Partition(elem, low, high) == PartitionLoop(elem, low, high, elem[low])

RECURSIVE QuickSortRange(_, _, _)
QuickSortRange(elem, low, high) ==
    IF low >= high THEN elem
    ELSE LET p == Partition(elem, low, high)
         IN QuickSortRange(QuickSortRange(p[1], low, p[2] - 1), p[2] + 1, high)

QuickSort(elem, n) == IF n <= 1 THEN elem ELSE QuickSortRange(elem, 0, n - 1)

\* ---- 选择排序.cpp ----
RECURSIVE SelectMin(_, _, _, _)
SelectMin(elem, n, j, minPos) ==
    IF j < n
    THEN SelectMin(elem, n, j + 1, IF elem[j] < elem[minPos] THEN j ELSE minPos)
    ELSE minPos

RECURSIVE SelectionOuter(_, _, _)
SelectionOuter(elem, n, i) ==
    IF i < n - 1
    THEN LET minPos == SelectMin(elem, n, i + 1, i)
         IN SelectionOuter(IF i # minPos THEN Swap(elem, i, minPos) ELSE elem, n, i + 1)
    ELSE elem

SimpleSelectionSort(elem, n) == SelectionOuter(elem, n, 0)

RECURSIVE SiftLoop(_, _, _)
SiftLoop(elem, root, end) ==
    LET left == root * 2 + 1
        child == IF left + 1 <= end /\ elem[left] < elem[left + 1] THEN left + 1 ELSE left
    IN IF left > end THEN elem
       ELSE IF ~(elem[root] < elem[child]) THEN elem
       ELSE SiftLoop(Swap(elem, root, child), child, end)

SiftDown(elem, start, end) == SiftLoop(elem, start, end)

RECURSIVE BuildHeapLoop(_, _, _)
BuildHeapLoop(elem, n, i) ==
    IF i >= 0 THEN BuildHeapLoop(SiftDown(elem, i, n - 1), n, i - 1) ELSE elem

BuildMaxHeap(elem, n) == BuildHeapLoop(elem, n, CDiv(n - 2, 2))

RECURSIVE HeapSortLoop(_, _)
HeapSortLoop(elem, end) ==
    IF end > 0 THEN HeapSortLoop(SiftDown(Swap(elem, 0, end), 0, end - 1), end - 1)
    ELSE elem

HeapSort(elem, n) ==
    IF n <= 1 THEN elem ELSE HeapSortLoop(BuildMaxHeap(elem, n), n - 1)

\* ---- 归并排序.cpp ----
\* The first for of Merge; the result is <<temElem, i, j, k>>.
RECURSIVE MergeBoth(_, _, _, _, _, _, _)
MergeBoth(elem, temElem, mid, high, i, j, k) ==
    IF i <= mid /\ j <= high
    THEN IF elem[i] <= elem[j]
         THEN MergeBoth(elem, [temElem EXCEPT ![k] = elem[i]], mid, high, i + 1, j, k + 1)
         ELSE MergeBoth(elem, [temElem EXCEPT ![k] = elem[j]], mid, high, i, j + 1, k + 1)
    ELSE <<temElem, i, j, k>>

\* The two for loops that copy what is left of either run.
RECURSIVE MergeRest(_, _, _, _, _)
MergeRest(elem, temElem, last, i, k) ==
    IF i <= last
    THEN MergeRest(elem, [temElem EXCEPT ![k] = elem[i]], last, i + 1, k + 1)
    ELSE <<temElem, k>>

\* The result is <<elem, temElem>>.
Merge(elem, temElem, low, mid, high) ==
    LET both == MergeBoth(elem, temElem, mid, high, low, mid + 1, low)
        left == MergeRest(elem, both[1], mid, both[2], both[4])
        right == MergeRest(elem, left[1], high, both[3], left[2])
        tem == right[1]
    IN <<[x \in DOMAIN elem |-> IF x >= low /\ x <= high THEN tem[x] ELSE elem[x]], tem>>

RECURSIVE MergeSortHelp(_, _, _, _)
MergeSortHelp(elem, temElem, low, high) ==
    IF low < high
    THEN LET mid == CDiv(low + high, 2)
             l == MergeSortHelp(elem, temElem, low, mid)
             r == MergeSortHelp(l[1], l[2], mid + 1, high)
         IN Merge(r[1], r[2], low, mid, high)
    ELSE <<elem, temElem>>

MergeSort(elem, n) ==
    IF n <= 1 THEN elem
    ELSE MergeSortHelp(elem, [x \in 0..(n - 1) |-> 0], 0, n - 1)[1]

\* ---- 插入排序.cpp ----
\* The inner for of StraightInsertSort; the result is <<elem, j>>.
RECURSIVE InsertShift(_, _, _)
InsertShift(elem, e, j) ==
    IF j >= 0 /\ e < elem[j]
    THEN InsertShift([elem EXCEPT ![j + 1] = elem[j]], e, j - 1)
    ELSE <<elem, j>>

RECURSIVE InsertOuter(_, _, _)
InsertOuter(elem, n, i) ==
    IF i < n
    THEN LET r == InsertShift(elem, elem[i], i - 1)
         IN InsertOuter([r[1] EXCEPT ![r[2] + 1] = elem[i]], n, i + 1)
    ELSE elem

StraightInsertSort(elem, n) == InsertOuter(elem, n, 1)

\* The inner for of ShellInsert; the result is <<elem, j>>.
RECURSIVE ShellShift(_, _, _, _)
ShellShift(elem, e, j, incr) ==
    IF j >= 0 /\ e < elem[j]
    THEN ShellShift([elem EXCEPT ![j + incr] = elem[j]], e, j - incr, incr)
    ELSE <<elem, j>>

RECURSIVE ShellInsertLoop(_, _, _, _)
ShellInsertLoop(elem, n, incr, i) ==
    IF i < n
    THEN LET r == ShellShift(elem, elem[i], i - incr, incr)
         IN ShellInsertLoop([r[1] EXCEPT ![r[2] + incr] = elem[i]], n, incr, i + 1)
    ELSE elem

\* A pass that starts every chain one element late (i = incr + 1), leaving
\* elem[incr] out of its chain.
ShellInsertSkipsFirst(elem, n, incr) == ShellInsertLoop(elem, n, incr, incr + 1)

ShellInsert(elem, n, incr) == ShellInsertLoop(elem, n, incr, incr)

\* inc[0..t-1] of the code is the sequence inc[1..t] here.
RECURSIVE ShellSortLoop(_, _, _, _, _)
ShellSortLoop(elem, n, inc, t, k) ==
    IF k < t THEN ShellSortLoop(ShellInsert(elem, n, inc[k + 1]), n, inc, t, k + 1)
    ELSE elem

ShellSort(elem, n, inc, t) == ShellSortLoop(elem, n, inc, t, 0)

\* ---- 基数排序.cpp ----
\* An int no wider than the keys: the largest int is MaxKey, and a product
\* beyond it wraps around, as the overflowing exp *= radix does.
IntModulus == 2 * (MaxKey + 1)
WrapInt(x) == ((x + MaxKey + 1) % IntModulus) - (MaxKey + 1)

RECURSIVE DigitsLoop(_, _, _)
DigitsLoop(x, radix, d) ==
    IF x > 0 THEN DigitsLoop(CDiv(x, radix), radix, d + 1) ELSE d

DigitsInBase(x, radix) == IF x = 0 THEN 1 ELSE DigitsLoop(x, radix, 0)

\* The scan for the largest key, which throws at the first negative key; the
\* result is <<"ok" or "throw", maxVal>>.
RECURSIVE RadixMaxVal(_, _, _, _)
RadixMaxVal(a, n, i, maxVal) ==
    IF i < n
    THEN IF a[i] < 0 THEN <<"throw", maxVal>>
         ELSE RadixMaxVal(a, n, i + 1, IF a[i] > maxVal THEN a[i] ELSE maxVal)
    ELSE <<"ok", maxVal>>

\* The singly linked list built from a[0..n-1] by appending at tail: the
\* sequence of its keys from head to tail.
RECURSIVE ListOfArray(_, _, _, _)
ListOfArray(a, n, i, list) ==
    IF i < n THEN ListOfArray(a, n, i + 1, Append(list, a[i])) ELSE list

\* Distribution: each node is cut from the list and appended at the tail
\* of the bucket of its current digit.
RECURSIVE Distribute(_, _, _, _)
Distribute(list, exp, radix, buckets) ==
    IF list = <<>> THEN buckets
    ELSE LET key == Head(list)
             digit == CDiv(key, exp) % radix
         IN Distribute(Tail(list), exp, radix,
                       [buckets EXCEPT ![digit] = Append(buckets[digit], key)])

\* Collection: the non-empty buckets are linked in the order of their digit.
RECURSIVE Collect(_, _, _, _)
Collect(buckets, radix, digit, list) ==
    IF digit < radix THEN Collect(buckets, radix, digit + 1, list \o buckets[digit])
    ELSE list

RECURSIVE RadixPasses(_, _, _, _, _)
RadixPasses(list, radix, d, pass, exp) ==
    IF pass < d
    THEN LET buckets == Distribute(list, exp, radix, [b \in 0..(radix - 1) |-> <<>>])
         IN RadixPasses(Collect(buckets, radix, 0, <<>>), radix, d, pass + 1,
                        WrapInt(exp * radix))
    ELSE list

\* The result is <<array, exception>> with exception "" when none is thrown.
RadixSortLSD(a, n, radix) ==
    IF n <= 1 THEN <<a, "">>
    ELSE IF radix <= 1 THEN <<a, "invalid_argument">>
    ELSE LET maxVal == RadixMaxVal(a, n, 0, 0)
         IN IF maxVal[1] = "throw" THEN <<a, "invalid_argument">>
            ELSE LET d == DigitsInBase(maxVal[2], radix)
                     list == RadixPasses(ListOfArray(a, n, 0, <<>>), radix, d, 0, 1)
                 IN <<[i \in 0..(n - 1) |-> list[i + 1]], "">>

\* ---- the calls ----
SortInit ==
    /\ sortIn \in SortInputs
    /\ sortAlg = "none"
    /\ sortArg = <<>>
    /\ sortOut = sortIn
    /\ sortExc = ""

SortIdle ==
    /\ sortIn = <<>>
    /\ sortAlg = "none"
    /\ sortArg = <<>>
    /\ sortOut = <<>>
    /\ sortExc = ""

\* What a call leaves behind: the array as the sort left it and the
\* exception it threw, if any.
Sorted(alg, arg, out, exc) ==
    /\ sortAlg' = alg
    /\ sortArg' = arg
    /\ sortOut' = out
    /\ sortExc' = exc
    /\ UNCHANGED <<sortIn, sortOthers>>

CallBubbleSort ==
    /\ sortAlg = "none"
    /\ Sorted("BubbleSort", <<>>, BubbleSort(sortIn, ArrLen(sortIn)), "")

CallQuickSort ==
    /\ sortAlg = "none"
    /\ Sorted("QuickSort", <<>>, QuickSort(sortIn, ArrLen(sortIn)), "")

CallSimpleSelectionSort ==
    /\ sortAlg = "none"
    /\ Sorted("SimpleSelectionSort", <<>>, SimpleSelectionSort(sortIn, ArrLen(sortIn)), "")

CallHeapSort ==
    /\ sortAlg = "none"
    /\ Sorted("HeapSort", <<>>, HeapSort(sortIn, ArrLen(sortIn)), "")

CallMergeSort ==
    /\ sortAlg = "none"
    /\ Sorted("MergeSort", <<>>, MergeSort(sortIn, ArrLen(sortIn)), "")

CallStraightInsertSort ==
    /\ sortAlg = "none"
    /\ Sorted("StraightInsertSort", <<>>, StraightInsertSort(sortIn, ArrLen(sortIn)), "")

CallShellSort ==
    /\ sortAlg = "none"
    /\ \E inc \in SeqsUpTo(1..MaxIncr, MaxIncs) :
        Sorted("ShellSort", inc, ShellSort(sortIn, ArrLen(sortIn), inc, Len(inc)), "")

CallRadixSortLSD ==
    /\ sortAlg = "none"
    /\ \E radix \in 1..MaxRadix :
        LET r == RadixSortLSD(sortIn, ArrLen(sortIn), radix)
        IN Sorted("RadixSortLSD", <<radix>>, r[1], r[2])

SortNext ==
    \/ CallBubbleSort
    \/ CallQuickSort
    \/ CallSimpleSelectionSort
    \/ CallHeapSort
    \/ CallMergeSort
    \/ CallStraightInsertSort
    \/ CallShellSort
    \/ CallRadixSortLSD

NonDecreasing(a) == \A i \in DOMAIN a : \A j \in DOMAIN a : i < j => a[i] <= a[j]

Occurrences(a, v) == Cardinality({i \in DOMAIN a : a[i] = v})

PermutationOf(a, b) ==
    /\ DOMAIN a = DOMAIN b
    /\ \A v \in Keys : Occurrences(a, v) = Occurrences(b, v)

SortedPermutation == NonDecreasing(sortOut) /\ PermutationOf(sortOut, sortIn)

\* C2: BubbleSort, QuickSort, SimpleSelectionSort, HeapSort and MergeSort each
\* terminate and leave the array a permutation of its input in non-decreasing
\* order, for every array of length n >= 0.
C2_ComparisonSorts ==
    sortAlg \in {"BubbleSort", "QuickSort", "SimpleSelectionSort", "HeapSort", "MergeSort"}
        => sortExc = "" /\ SortedPermutation

\* One of the five sorts ran on an array of the full length that holds a
\* repeated key and starts out of order.
C2_Witness ==
    /\ sortAlg \in {"QuickSort", "HeapSort"}
    /\ ArrLen(sortIn) = MaxSortLen
    /\ sortIn[0] > sortIn[1] /\ sortIn[1] = sortIn[2]
    /\ sortOut # sortIn

\* C3: StraightInsertSort on any array, ShellSort with positive increments
\* the last of which is 1, and RadixSortLSD on non-negative keys with
\* radix >= 2 each leave the array a permutation of its input in
\* non-decreasing order.
C3_InsertShellRadix ==
    /\ sortAlg = "StraightInsertSort" => SortedPermutation
    /\ (sortAlg = "ShellSort" /\ Len(sortArg) >= 1 /\ sortArg[Len(sortArg)] = 1)
           => SortedPermutation
    /\ (sortAlg = "RadixSortLSD" /\ sortArg[1] >= 2 /\ \A i \in DOMAIN sortIn : sortIn[i] >= 0)
           => sortExc = "" /\ SortedPermutation

\* ShellSort ran with a larger increment before the final 1, or RadixSortLSD
\* ran over keys of more than one digit, on an array that was out of order.
C3_Witness ==
    /\ ArrLen(sortIn) = MaxSortLen
    /\ ~NonDecreasing(sortIn)
    /\ \/ sortAlg = "ShellSort" /\ sortArg = <<2, 1>>
       \/ /\ sortAlg = "RadixSortLSD" /\ sortArg = <<2>> /\ sortExc = ""
          /\ \E i \in DOMAIN sortIn : sortIn[i] >= 2
    /\ sortOut # sortIn

(***************************************************************************)
(* 数组.cpp: Array<ElemType>, the n-dimensional array in row-major order.   *)
(* bounds[0..dim-1] and constants[0..dim-1] are functions over 0..dim-1.   *)
(***************************************************************************)
MaxDim == 3
MaxDimLen == 2
IntMax == 2147483647

\* The first dimension whose length is not positive, or dm when all are.
RECURSIVE FirstBadLength(_, _, _)
FirstBadLength(lengths, dm, i) ==
    IF i < dm /\ lengths[i] > 0 THEN FirstBadLength(lengths, dm, i + 1) ELSE i

\* total = the product of the lengths, -1 when it exceeds the largest int.
RECURSIVE TotalLoop(_, _, _, _)
TotalLoop(bs, dm, i, prod) ==
    IF i < dm
    THEN IF prod * bs[i] > IntMax THEN -1 ELSE TotalLoop(bs, dm, i + 1, prod * bs[i])
    ELSE prod

\* constants[dim-1] = 1 and constants[i] = bounds[i+1] * constants[i+1].
RECURSIVE ConstantsLoop(_, _, _)
ConstantsLoop(bs, i, cs) ==
    IF i >= 0 THEN ConstantsLoop(bs, i - 1, [cs EXCEPT ![i] = bs[i + 1] * cs[i + 1]])
    ELSE cs

\* Multipliers that take the length of the own dimension, not of the next:
\* constants[i] = bounds[i] * constants[i+1].
ArrayConstantsOwnLength(bs, dm) ==
    LET RECURSIVE Loop(_, _)
        Loop(i, cs) ==
            IF i >= 0 THEN Loop(i - 1, [cs EXCEPT ![i] = bs[i] * cs[i + 1]]) ELSE cs
    IN Loop(dm - 2, [k \in 0..(dm - 1) |-> 1])

ArrayConstants(bs, dm) == ConstantsLoop(bs, dm - 2, [k \in 0..(dm - 1) |-> 1])

\* Array::Locate: <<"throw", 0>> at the first subscript out of its range,
\* <<"ok", idx>> otherwise.
RECURSIVE LocateLoop(_, _, _, _, _, _)
LocateLoop(dm, bs, cs, subs, i, idx) ==
    IF i < dm
    THEN IF subs[i] < 0 \/ subs[i] >= bs[i] THEN <<"throw", 0>>
         ELSE LocateLoop(dm, bs, cs, subs, i + 1, idx + subs[i] * cs[i])
    ELSE <<"ok", idx>>

Locate(dm, bs, cs, subs) ==
    IF dm <= 0 THEN <<"throw", 0>> ELSE LocateLoop(dm, bs, cs, subs, 0, 0)

ArrInit ==
    /\ arrState = "none"
    /\ dim = 0
    /\ bounds = <<>>
    /\ constants = <<>>
    /\ total = 0
    /\ arrSubs = <<>>
    /\ arrAccess = NotRun

ArrIdle == ArrInit

\* Array::Array(int dm, ...) with the dm lengths that follow dm.
ArrayCtor ==
    /\ arrState = "none"
    /\ \E dm \in 0..MaxDim : \E lengths \in [0..(dm - 1) -> 0..MaxDimLen] :
        IF dm <= 0 \/ FirstBadLength(lengths, dm, 0) < dm
        THEN /\ arrState' = "out_of_range"
             /\ UNCHANGED <<dim, bounds, constants, total>>
        ELSE IF TotalLoop(lengths, dm, 0, 1) = -1
        THEN /\ arrState' = "overflow_error"
             /\ UNCHANGED <<dim, bounds, constants, total>>
        ELSE /\ arrState' = "built"
             /\ dim' = dm
             /\ bounds' = lengths
             /\ total' = TotalLoop(lengths, dm, 0, 1)
             /\ constants' = ArrayConstants(lengths, dm)
    /\ UNCHANGED <<arrSubs, arrAccess, arrOthers>>

\* Array::operator()(int sub0, ...) with dim subscripts: base[pos] when
\* Locate returns pos.  An access changes no member of the array, so one
\* access of each array stands for any sequence of them.
ArrayAccess ==
    /\ arrState = "built"
    /\ arrAccess = NotRun
    /\ \E subs \in [0..(dim - 1) -> (-1)..MaxDimLen] :
        /\ arrSubs' = subs
        /\ arrAccess' = Locate(dim, bounds, constants, subs)
    /\ UNCHANGED <<arrState, dim, bounds, constants, total, arrOthers>>

ArrNext == ArrayCtor \/ ArrayAccess

\* b_{k+1} * ... * b_{n-1}
RECURSIVE ProductFrom(_, _, _)
ProductFrom(bs, k, n) == IF k >= n THEN 1 ELSE bs[k] * ProductFrom(bs, k + 1, n)

\* sum over k of j_k * (b_{k+1} * ... * b_{n-1})
RECURSIVE RowMajorFrom(_, _, _, _)
RowMajorFrom(bs, subs, k, n) ==
    IF k >= n THEN 0
    ELSE subs[k] * ProductFrom(bs, k + 1, n) + RowMajorFrom(bs, subs, k + 1, n)

InRange(bs, subs) == \A k \in DOMAIN bs : subs[k] >= 0 /\ subs[k] < bs[k]

ValidSubscripts == {subs \in [0..(dim - 1) -> 0..(MaxDimLen - 1)] : InRange(bounds, subs)}

\* C4: operator() throws out_of_range exactly when some subscript is outside
\* [0, b_k); otherwise it accesses the row-major offset, which lies in
\* [0, b_0 * ... * b_{n-1}) and differs for different subscript tuples.
C4_RowMajorAccess ==
    /\ arrAccess # NotRun =>
          /\ (arrAccess[1] = "throw") <=> ~InRange(bounds, arrSubs)
          /\ arrAccess[1] = "ok" =>
                /\ arrAccess[2] = RowMajorFrom(bounds, arrSubs, 0, dim)
                /\ arrAccess[2] >= 0
                /\ arrAccess[2] < ProductFrom(bounds, 0, dim)
    /\ arrState = "built" =>
          /\ total = ProductFrom(bounds, 0, dim)
          /\ Cardinality({Locate(dim, bounds, constants, subs)[2] : subs \in ValidSubscripts})
                 = Cardinality(ValidSubscripts)

\* The last element of an array of the largest shape was accessed.
C4_Witness ==
    /\ arrState = "built" /\ dim = MaxDim
    /\ arrAccess = <<"ok", total - 1>>
    /\ \A k \in DOMAIN bounds : bounds[k] = MaxDimLen /\ arrSubs[k] = MaxDimLen - 1

(***************************************************************************)
(* 动态表查找.cpp: the AVL tree.  A tree is nullptr, the empty tuple, or a   *)
(* node <<key, height, left, right>> whose children are trees.             *)
(***************************************************************************)
MaxAvlKey == 7

Nil == <<>>
AVLNode(k) == <<k, 1, Nil, Nil>>
KeyOf(node) == node[1]
LeftOf(node) == node[3]
RightOf(node) == node[4]

height(node) == IF node # Nil THEN node[2] ELSE 0

\* The height taken as the larger child height, without the 1 for the node.
updateHeightNoIncrement(k, left, right) ==
    <<k, IF height(left) > height(right) THEN height(left) ELSE height(right),
      left, right>>

\* updateHeight on a node with the given children: the node with its
\* height field recomputed from the height fields of the children.
updateHeight(k, left, right) ==
    <<k, 1 + (IF height(left) > height(right) THEN height(left) ELSE height(right)),
      left, right>>

balanceFactor(node) ==
    IF node # Nil THEN height(LeftOf(node)) - height(RightOf(node)) ELSE 0

rotateRight(y) ==
    LET x == LeftOf(y)
        T2 == RightOf(x)
        y2 == updateHeight(KeyOf(y), T2, RightOf(y))
    IN updateHeight(KeyOf(x), LeftOf(x), y2)

rotateLeft(x) ==
    LET y == RightOf(x)
        T2 == LeftOf(y)
        x2 == updateHeight(KeyOf(x), LeftOf(x), T2)
    IN updateHeight(KeyOf(y), x2, RightOf(y))

\* Steps 2 and 3 of AVLInsert on the node whose subtree received the key.
Rebalance(node, key) ==
    LET bf == balanceFactor(node)
    IN IF bf > 1 /\ key < KeyOf(LeftOf(node)) THEN rotateRight(node)
       ELSE IF bf < -1 /\ key > KeyOf(RightOf(node)) THEN rotateLeft(node)
       ELSE IF bf > 1 /\ key > KeyOf(LeftOf(node))
       THEN rotateRight(<<KeyOf(node), node[2], rotateLeft(LeftOf(node)), RightOf(node)>>)
       ELSE IF bf < -1 /\ key < KeyOf(RightOf(node))
       THEN rotateLeft(<<KeyOf(node), node[2], LeftOf(node), rotateRight(RightOf(node))>>)
       ELSE node

RECURSIVE AVLInsert(_, _)
AVLInsert(node, key) ==
    IF node = Nil THEN AVLNode(key)
    ELSE IF key < KeyOf(node)
    THEN Rebalance(updateHeight(KeyOf(node), AVLInsert(LeftOf(node), key), RightOf(node)), key)
    ELSE IF key > KeyOf(node)
    THEN Rebalance(updateHeight(KeyOf(node), LeftOf(node), AVLInsert(RightOf(node), key)), key)
    ELSE node

AvlInit ==
    /\ rootAVL = Nil
    /\ avlInserted = {}
    /\ avlPrev = Nil
    /\ avlLastKey = 0

AvlIdle == AvlInit

\* rootAVL = AVLInsert(rootAVL, key)
CallAVLInsert ==
    /\ \E key \in 1..MaxAvlKey :
        /\ rootAVL' = AVLInsert(rootAVL, key)
        /\ avlInserted' = avlInserted \cup {key}
        /\ avlPrev' = rootAVL
        /\ avlLastKey' = key
    /\ UNCHANGED avlOthers

AvlNext == CallAVLInsert

RECURSIVE InOrder(_)
InOrder(t) ==
    IF t = Nil THEN <<>> ELSE InOrder(LeftOf(t)) \o <<KeyOf(t)>> \o InOrder(RightOf(t))

StrictlyIncreasing(q) == \A i \in 1..(Len(q) - 1) : q[i] < q[i + 1]

RECURSIVE TreeHeight(_)
TreeHeight(t) ==
    IF t = Nil THEN 0
    ELSE 1 + (IF TreeHeight(LeftOf(t)) > TreeHeight(RightOf(t))
              THEN TreeHeight(LeftOf(t)) ELSE TreeHeight(RightOf(t)))

\* Every node holds its true height and has a balance factor in {-1, 0, 1}.
RECURSIVE HeightsAndBalance(_)
HeightsAndBalance(t) ==
    \/ t = Nil
    \/ /\ t[2] = TreeHeight(t)
       /\ TreeHeight(LeftOf(t)) - TreeHeight(RightOf(t)) \in {-1, 0, 1}
       /\ HeightsAndBalance(LeftOf(t))
       /\ HeightsAndBalance(RightOf(t))

\* C5: after any sequence of AVLInsert calls from the empty tree, the tree is
\* a binary search tree of exactly the distinct keys inserted, every height
\* field is 1 + max of the children's heights (0 for the empty tree), and
\* every balance factor is in {-1, 0, 1}.
C5_AvlInvariant ==
    /\ StrictlyIncreasing(InOrder(rootAVL))
    /\ {InOrder(rootAVL)[i] : i \in 1..Len(InOrder(rootAVL))} = avlInserted
    /\ HeightsAndBalance(rootAVL)

\* An insertion below the right child of a tree of height 3 rotated the root
\* away, and a subtree changed sides.
C5_Witness ==
    /\ avlPrev # Nil /\ rootAVL # Nil
    /\ height(avlPrev) = 3
    /\ avlLastKey > KeyOf(avlPrev)
    /\ KeyOf(rootAVL) # KeyOf(avlPrev)
    /\ RightOf(LeftOf(rootAVL)) # Nil

(***************************************************************************)
(* 队列.cpp: LinkQueue<T> and CircQueue<T> with T = std::string.            *)
(*                                                                         *)
(* A LinkQueue is [front, rear, count, next, data]: next and data are the  *)
(* fields of the nodes on the heap, functions over the allocated node ids, *)
(* and the id 0 is nullptr.  A CircQueue is [elems, front, rear, maxSize,  *)
(* count] with elems a function over 0..maxSize-1.  The two queues are     *)
(* separate objects, so a run exercises one of them, named by qKind.       *)
(***************************************************************************)
MaxLinkLen == 3
MaxCircSize == 3
QElems == {"A", "B"}

\* T{} and the elements of new T[size] for T = std::string.
DefaultElem == ""
nullptr == 0

\* new Node<T>(d): the smallest id not allocated.
NewNodeId(q) == CHOOSE id \in 1..(Cardinality(DOMAIN q.next) + 1) : id \notin DOMAIN q.next

\* LinkQueue::LinkQueue(): front = new Node<T>(T{}), rear = front, count = 0.
LinkQueueCtor ==
    [front |-> 1, rear |-> 1, count |-> 0,
     next |-> [n \in {1} |-> nullptr], data |-> [n \in {1} |-> DefaultElem]]

LinkLength(q) == q.count
LinkEmpty(q) == q.front = q.rear

\* LinkQueue::InQueue once new has returned a node.
LinkInQueue(q, e) ==
    LET node == NewNodeId(q)
        next1 == [n \in DOMAIN q.next \cup {node} |-> IF n = node THEN nullptr ELSE q.next[n]]
        data1 == [n \in DOMAIN q.data \cup {node} |-> IF n = node THEN e ELSE q.data[n]]
    IN [q EXCEPT !.next = [next1 EXCEPT ![q.rear] = node], !.data = data1,
                 !.rear = node, !.count = q.count + 1]

\* LinkQueue::OutQueue(T& e): <<queue, returned flag, e>>; e is the caller's
\* variable and keeps its value when the queue is empty.
LinkOutQueue(q, e) ==
    IF LinkEmpty(q) THEN <<q, FALSE, e>>
    ELSE LET first == q.next[q.front]
             nextAfter == [q.next EXCEPT ![q.front] = q.next[first]]
         IN <<[q EXCEPT !.next = [n \in DOMAIN nextAfter \ {first} |-> nextAfter[n]],
                        !.data = [n \in DOMAIN q.data \ {first} |-> q.data[n]],
                        !.rear = IF q.rear = first THEN q.front ELSE q.rear,
                        !.count = q.count - 1],
              TRUE, q.data[first]>>

LinkGetHead(q, e) ==
    IF LinkEmpty(q) THEN <<FALSE, e>> ELSE <<TRUE, q.data[q.next[q.front]]>>

\* LinkQueue::Clear: while (OutQueue(tmp)) {}
RECURSIVE LinkClear(_)
LinkClear(q) ==
    LET r == LinkOutQueue(q, DefaultElem) IN IF r[2] THEN LinkClear(r[1]) ELSE r[1]

\* CircQueue::CircQueue(int size)
CircQueueCtor(size) ==
    [elems |-> [i \in 0..(size - 1) |-> DefaultElem], front |-> 0, rear |-> 0,
     maxSize |-> size, count |-> 0]

CircLength(q) == q.count
CircEmpty(q) == q.count = 0

CircClear(q) == [q EXCEPT !.front = 0, !.rear = 0, !.count = 0]

\* CircQueue::Traverse: the elements visit is called on, in order.
RECURSIVE CircTraverseLoop(_, _, _)
CircTraverseLoop(q, i, visited) ==
    IF i # q.rear
    THEN CircTraverseLoop(q, (i + 1) % q.maxSize, Append(visited, q.elems[i]))
    ELSE visited

CircTraverse(q) == CircTraverseLoop(q, q.front, <<>>)

\* An OutQueue that counts the element out but leaves front on it.
CircOutQueueKeepsFront(q, e) ==
    IF CircEmpty(q) THEN <<q, FALSE, e>>
    ELSE <<[q EXCEPT !.count = q.count - 1], TRUE, q.elems[q.front]>>

CircOutQueue(q, e) ==
    IF CircEmpty(q) THEN <<q, FALSE, e>>
    ELSE <<[q EXCEPT !.front = (q.front + 1) % q.maxSize, !.count = q.count - 1],
           TRUE, q.elems[q.front]>>

CircGetHead(q, e) ==
    IF CircEmpty(q) THEN <<FALSE, e>> ELSE <<TRUE, q.elems[q.front]>>

\* An InQueue that takes the queue for full one element early, as a queue
\* that tells full from empty by front and rear alone must.
CircInQueueOneSlotFree(q, e) ==
    IF q.count + 1 >= q.maxSize THEN <<q, FALSE>>
    ELSE <<[q EXCEPT !.elems = [q.elems EXCEPT ![q.rear] = e],
                     !.rear = (q.rear + 1) % q.maxSize,
                     !.count = q.count + 1], TRUE>>

\* CircQueue::InQueue: <<queue, returned flag>>.
CircInQueue(q, e) ==
    IF q.count = q.maxSize THEN <<q, FALSE>>
    ELSE <<[q EXCEPT !.elems = [q.elems EXCEPT ![q.rear] = e],
                     !.rear = (q.rear + 1) % q.maxSize,
                     !.count = q.count + 1], TRUE>>

LinkIdleQueue == [front |-> nullptr, rear |-> nullptr, count |-> 0, next |-> <<>>, data |-> <<>>]
CircIdleQueue == CircQueueCtor(0)

QueueInit ==
    /\ \/ qKind = "LinkQueue" /\ lq = LinkQueueCtor /\ cq = CircIdleQueue
       \/ qKind = "CircQueue" /\ lq = LinkIdleQueue
             /\ \E size \in 0..MaxCircSize : cq = CircQueueCtor(size)
    /\ qHist = <<>>
    /\ qOp = "new"
    /\ qArg = DefaultElem
    /\ qRet = TRUE
    /\ qVal = DefaultElem
    /\ qPrevHist = <<>>
    /\ qPrevLen = 0
    /\ qVisited = <<>>

QueueIdle ==
    /\ qKind = "none" /\ lq = LinkIdleQueue /\ cq = CircIdleQueue
    /\ qHist = <<>>
    /\ qOp = "new"
    /\ qArg = DefaultElem
    /\ qRet = TRUE
    /\ qVal = DefaultElem
    /\ qPrevHist = <<>>
    /\ qPrevLen = 0
    /\ qVisited = <<>>

\* The record of a call: the operation, its argument, what it returned, and
\* the elements that had entered and not left, before and after it.
Called(op, arg, ret, val, hist, len) ==
    /\ qOp' = op
    /\ qArg' = arg
    /\ qRet' = ret
    /\ qVal' = val
    /\ qPrevHist' = qHist
    /\ qPrevLen' = len
    /\ qHist' = hist
    /\ UNCHANGED <<qKind, queueOthers>>

\* lq.InQueue(e); new (std::nothrow) may return nullptr, and InQueue then
\* returns false with the queue as it was.
CallLinkInQueue ==
    /\ qKind = "LinkQueue"
    /\ LinkLength(lq) < MaxLinkLen
    /\ \E e \in QElems : \E allocated \in BOOLEAN :
        /\ lq' = IF allocated THEN LinkInQueue(lq, e) ELSE lq
        /\ Called("InQueue", e, allocated, qVal,
                  IF allocated THEN Append(qHist, e) ELSE qHist, LinkLength(lq))
    /\ UNCHANGED <<cq, qVisited>>

CallLinkOutQueue ==
    /\ qKind = "LinkQueue"
    /\ LET r == LinkOutQueue(lq, qVal)
       IN /\ lq' = r[1]
          /\ Called("OutQueue", DefaultElem, r[2], r[3],
                    IF r[2] /\ qHist # <<>> THEN Tail(qHist) ELSE qHist, LinkLength(lq))
    /\ UNCHANGED <<cq, qVisited>>

CallLinkGetHead ==
    /\ qKind = "LinkQueue"
    /\ LET r == LinkGetHead(lq, qVal)
       IN Called("GetHead", DefaultElem, r[1], r[2], qHist, LinkLength(lq))
    /\ UNCHANGED <<lq, cq, qVisited>>

CallLinkClear ==
    /\ qKind = "LinkQueue"
    /\ lq' = LinkClear(lq)
    /\ Called("Clear", DefaultElem, TRUE, qVal, <<>>, LinkLength(lq))
    /\ UNCHANGED <<cq, qVisited>>

CallCircInQueue ==
    /\ qKind = "CircQueue"
    /\ \E e \in QElems :
        LET r == CircInQueue(cq, e)
        IN /\ cq' = r[1]
           /\ Called("InQueue", e, r[2], qVal,
                     IF r[2] THEN Append(qHist, e) ELSE qHist, CircLength(cq))
    /\ UNCHANGED <<lq, qVisited>>

CallCircOutQueue ==
    /\ qKind = "CircQueue"
    /\ LET r == CircOutQueue(cq, qVal)
       IN /\ cq' = r[1]
          /\ Called("OutQueue", DefaultElem, r[2], r[3],
                    IF r[2] /\ qHist # <<>> THEN Tail(qHist) ELSE qHist, CircLength(cq))
    /\ UNCHANGED <<lq, qVisited>>

CallCircGetHead ==
    /\ qKind = "CircQueue"
    /\ LET r == CircGetHead(cq, qVal)
       IN Called("GetHead", DefaultElem, r[1], r[2], qHist, CircLength(cq))
    /\ UNCHANGED <<lq, cq, qVisited>>

CallCircClear ==
    /\ qKind = "CircQueue"
    /\ cq' = CircClear(cq)
    /\ Called("Clear", DefaultElem, TRUE, qVal, <<>>, CircLength(cq))
    /\ UNCHANGED <<lq, qVisited>>

CallCircTraverse ==
    /\ qKind = "CircQueue"
    /\ qVisited' = CircTraverse(cq)
    /\ Called("Traverse", DefaultElem, TRUE, qVal, qHist, CircLength(cq))
    /\ UNCHANGED <<lq, cq>>

QueueNext ==
    \/ CallLinkInQueue
    \/ CallLinkOutQueue
    \/ CallLinkGetHead
    \/ CallLinkClear
    \/ CallCircInQueue
    \/ CallCircOutQueue
    \/ CallCircGetHead
    \/ CallCircClear
    \/ CallCircTraverse

\* The elements a CircQueue holds, from its head to its tail.
CircContents(q) == [i \in 1..q.count |-> q.elems[(q.front + i - 1) % q.maxSize]]

QueueLength == IF qKind = "LinkQueue" THEN LinkLength(lq) ELSE CircLength(cq)

\* C6: for both queues, a successful OutQueue returns the oldest element
\* still in the queue, GetHead returns that element and removes nothing, and
\* both return false exactly when Length() = 0.
C6_Fifo ==
    /\ QueueLength = Len(qHist)
    /\ qOp \in {"OutQueue", "GetHead"} =>
          /\ (qRet = FALSE) <=> (qPrevLen = 0)
          /\ qRet => qPrevHist # <<>> /\ qVal = Head(qPrevHist)
          /\ qOp = "GetHead" => QueueLength = qPrevLen /\ qHist = qPrevHist
          /\ (qOp = "OutQueue" /\ qRet) => QueueLength = qPrevLen - 1

\* A LinkQueue filled to the bound gave up its oldest element, which
\* differs from the one behind it.
C6_Witness ==
    /\ qKind = "LinkQueue" /\ qOp = "OutQueue" /\ qRet
    /\ Len(qPrevHist) = MaxLinkLen
    /\ qVal = "A" /\ qPrevHist[2] = "B"

C8_TraverseVisitsAll ==
    (qKind = "CircQueue" /\ qOp = "Traverse") =>
        Len(qVisited) = CircLength(cq) /\ qVisited = qHist

\* With a slot to spare, Traverse visits exactly the elements of the queue.
C8_TraverseBelowFull ==
    (qKind = "CircQueue" /\ qOp = "Traverse" /\ CircLength(cq) < cq.maxSize) =>
        Len(qVisited) = CircLength(cq) /\ qVisited = qHist

(***************************************************************************)
(* 哈希表.cpp: OpenAddressHashTable.  The table is [table, probeType,       *)
(* elemCount] with table a function over 0..size-1 of slots [key, state].  *)
(***************************************************************************)
MaxInitTableSize == 3
MaxTableSize == 7
MaxHashKey == 4

\* HashSlot::HashSlot()
HashSlot == [key |-> 0, state |-> "EMPTY"]

\* OpenAddressHashTable::OpenAddressHashTable(tableSize, type)
OpenAddressHashTable(tableSize, type) ==
    [table |-> [h \in 0..(tableSize - 1) |-> HashSlot], probeType |-> type, elemCount |-> 0]

TableSize(t) == Cardinality(DOMAIN t.table)

\* hashModPrime(key, p) = |key| % p
hashModPrime(key, p) == (IF key >= 0 THEN key ELSE -key) % p

\* loadFactor() > 0.7 for elemCount / size, both small integers.
LoadFactorAbove70(t) == 10 * t.elemCount > 7 * TableSize(t)

probeOffset(t, i) == IF t.probeType = "LINEAR" THEN i ELSE i * i

\* The probe loop of insert: <<table object, returned flag>>.
RECURSIVE InsertProbe(_, _, _, _, _)
InsertProbe(t, key, m, h0, i) ==
    IF i < m
    THEN LET h == (h0 + probeOffset(t, i)) % m
         IN IF t.table[h].state = "EMPTY" \/ t.table[h].state = "DELETED"
            THEN <<[t EXCEPT !.table[h] = [key |-> key, state |-> "OCCUPIED"],
                             !.elemCount = t.elemCount + 1], TRUE>>
            ELSE IF t.table[h].state = "OCCUPIED" /\ t.table[h].key = key
            THEN <<t, TRUE>>
            ELSE InsertProbe(t, key, m, h0, i + 1)
    ELSE <<t, FALSE>>

RECURSIVE HashInsert(_, _)
RECURSIVE RehashLoop(_, _, _, _)

\* The for of rehash over oldTable, which ignores what insert returns.
RehashLoop(t, oldTable, oldSize, h) ==
    IF h < oldSize
    THEN RehashLoop(IF oldTable[h].state = "OCCUPIED"
                    THEN HashInsert(t, oldTable[h].key)[1] ELSE t,
                    oldTable, oldSize, h + 1)
    ELSE t

rehash(t, newSize) ==
    RehashLoop([t EXCEPT !.table = [h \in 0..(newSize - 1) |-> HashSlot], !.elemCount = 0],
               t.table, TableSize(t), 0)

\* OpenAddressHashTable::insert: <<table object, returned flag>>.
HashInsert(t, key) ==
    LET t1 == IF LoadFactorAbove70(t) THEN rehash(t, TableSize(t) * 2 + 1) ELSE t
        m == TableSize(t1)
    IN InsertProbe(t1, key, m, hashModPrime(key, m), 0)

RECURSIVE FindProbe(_, _, _, _, _)
FindProbe(t, key, m, h0, i) ==
    IF i < m
    THEN LET h == (h0 + probeOffset(t, i)) % m
         IN IF t.table[h].state = "EMPTY" THEN FALSE
            ELSE IF t.table[h].state = "OCCUPIED" /\ t.table[h].key = key THEN TRUE
            ELSE FindProbe(t, key, m, h0, i + 1)
    ELSE FALSE

HashFind(t, key) == FindProbe(t, key, TableSize(t), hashModPrime(key, TableSize(t)), 0)

\* The probe loop of erase: <<table object, returned flag>>.
RECURSIVE EraseProbe(_, _, _, _, _)
EraseProbe(t, key, m, h0, i) ==
    IF i < m
    THEN LET h == (h0 + probeOffset(t, i)) % m
         IN IF t.table[h].state = "EMPTY" THEN <<t, FALSE>>
            ELSE IF t.table[h].state = "OCCUPIED" /\ t.table[h].key = key
            THEN <<[t EXCEPT !.table[h].state = "DELETED", !.elemCount = t.elemCount - 1],
                   TRUE>>
            ELSE EraseProbe(t, key, m, h0, i + 1)
    ELSE <<t, FALSE>>

HashErase(t, key) == EraseProbe(t, key, TableSize(t), hashModPrime(key, TableSize(t)), 0)

HashInit ==
    /\ \E tableSize \in 1..MaxInitTableSize : \E type \in {"LINEAR", "QUADRATIC"} :
          ht = OpenAddressHashTable(tableSize, type)
    /\ htOp = "new"
    /\ htKey = 0
    /\ htRet = TRUE

HashIdle ==
    /\ ht = OpenAddressHashTable(0, "LINEAR")
    /\ htOp = "new"
    /\ htKey = 0
    /\ htRet = TRUE

\* ht.insert(key), while the table it may grow into stays within the bound.
CallHashInsert ==
    /\ LoadFactorAbove70(ht) => TableSize(ht) * 2 + 1 <= MaxTableSize
    /\ \E key \in 0..MaxHashKey :
        LET r == HashInsert(ht, key)
        IN /\ ht' = r[1]
           /\ htOp' = "insert"
           /\ htKey' = key
           /\ htRet' = r[2]
    /\ UNCHANGED hashOthers

CallHashFind ==
    /\ \E key \in 0..MaxHashKey :
        /\ htOp' = "find"
        /\ htKey' = key
        /\ htRet' = HashFind(ht, key)
    /\ UNCHANGED <<ht, hashOthers>>

CallHashErase ==
    /\ \E key \in 0..MaxHashKey :
        LET r == HashErase(ht, key)
        IN /\ ht' = r[1]
           /\ htOp' = "erase"
           /\ htKey' = key
           /\ htRet' = r[2]
    /\ UNCHANGED hashOthers

HashNext == CallHashInsert \/ CallHashFind \/ CallHashErase

HasFreeSlot(t) == \E h \in DOMAIN t.table : t.table[h].state \in {"EMPTY", "DELETED"}

Stores(t, key) ==
    \E h \in DOMAIN t.table : t.table[h].state = "OCCUPIED" /\ t.table[h].key = key

\* C9: insert(key) returns false only when no slot is EMPTY or DELETED;
\* whenever a free slot exists and key is not stored, insert stores key and
\* returns true, for LINEAR and for QUADRATIC probing.
C9_InsertFailsOnlyWhenFull ==
    htOp = "insert" =>
        IF htRet THEN Stores(ht, htKey) ELSE ~HasFreeSlot(ht)

\* With LINEAR probing insert never fails while a slot is free.
C9_LinearInsert ==
    (htOp = "insert" /\ ht.probeType = "LINEAR") =>
        IF htRet THEN Stores(ht, htKey) ELSE ~HasFreeSlot(ht)

(***************************************************************************)
(* 哈夫曼树与哈夫曼编码.cpp: HuffmanTree.  nodes is a function over 0..m   *)
(* (index 0 is the unused default node), strings are sequences of          *)
(* one-character strings, and a call that can throw returns <<"ok", v>> or *)
(* <<"throw", <<>>>>.                                                      *)
(***************************************************************************)
MaxHuffChars == 3
MaxWeight == 2
MaxHuffText == 3
HuffChars == {"a", "b", "c"}

\* HuffNode with its default member initialisers; ch '\0' is "".
HuffNode == [weight |-> 0, parent |-> 0, left |-> 0, right |-> 0, ch |-> "", isLeaf |-> FALSE]

\* The for of selectTwoMin over i = 1..cur: <<r1, r2>>.
RECURSIVE SelectLoop(_, _, _, _, _)
SelectLoop(nodes, cur, i, r1, r2) ==
    IF i <= cur
    THEN IF nodes[i].parent # 0
         THEN SelectLoop(nodes, cur, i + 1, r1, r2)
         ELSE IF r1 = 0 \/ nodes[i].weight < nodes[r1].weight
         THEN SelectLoop(nodes, cur, i + 1, i, r1)
         ELSE IF r2 = 0 \/ nodes[i].weight < nodes[r2].weight
         THEN SelectLoop(nodes, cur, i + 1, r1, i)
         ELSE SelectLoop(nodes, cur, i + 1, r1, r2)
    ELSE <<r1, r2>>

\* selectTwoMin: <<"ok", <<r1, r2>>>> with the smaller weight first, or a throw.
selectTwoMin(nodes, cur) ==
    LET r == SelectLoop(nodes, cur, 1, 0, 0)
    IN IF r[1] = 0 \/ r[2] = 0 THEN <<"throw", <<>>>>
       ELSE IF nodes[r[1]].weight > nodes[r[2]].weight THEN <<"ok", <<r[2], r[1]>>>>
       ELSE <<"ok", r>>

\* Step (1) of build: the leaves 1..n.
RECURSIVE BuildLeaves(_, _, _, _, _)
BuildLeaves(nodes, chars, weights, n, i) ==
    IF i <= n
    THEN BuildLeaves([nodes EXCEPT ![i].weight = weights[i], ![i].ch = chars[i],
                                   ![i].isLeaf = TRUE],
                     chars, weights, n, i + 1)
    ELSE nodes

\* Step (2) of build: merge two parentless minimum trees into k, k = n+1..m.
RECURSIVE BuildMerge(_, _, _)
BuildMerge(nodes, m, k) ==
    IF k <= m
    THEN LET sel == selectTwoMin(nodes, k - 1)
         IN IF sel[1] = "throw" THEN <<"throw", <<>>>>
            ELSE LET r1 == sel[2][1]
                     r2 == sel[2][2]
                 IN BuildMerge([nodes EXCEPT ![r1].parent = k, ![r2].parent = k,
                                             ![k].left = r1, ![k].right = r2,
                                             ![k].weight = nodes[r1].weight + nodes[r2].weight],
                               m, k + 1)
    ELSE <<"ok", nodes>>

\* build: <<"ok", nodes>> or a throw.
build(chars, weights) ==
    IF Len(chars) # Len(weights) \/ Len(chars) = 0 THEN <<"throw", <<>>>>
    ELSE LET n == Len(chars)
             m == 2 * n - 1
         IN BuildMerge(BuildLeaves([i \in 0..m |-> HuffNode], chars, weights, n, 1), m, n + 1)

RECURSIVE Reverse(_)
Reverse(code) ==
    IF code = <<>> THEN <<>> ELSE Append(Reverse(Tail(code)), Head(code))

\* The while of buildCodes: the code collected from the leaf up to the root.
RECURSIVE CodeUp(_, _, _, _)
CodeUp(nodes, child, parent, code) ==
    IF parent # 0
    THEN CodeUp(nodes, parent, nodes[parent].parent,
                Append(code, IF nodes[parent].left = child THEN "0" ELSE "1"))
    ELSE code

\* The for of buildCodes over the leaves 1..n, codeOf a map from ch to code.
RECURSIVE BuildCodesLoop(_, _, _, _)
BuildCodesLoop(nodes, n, i, codeOf) ==
    IF i <= n
    THEN LET code == Reverse(CodeUp(nodes, i, nodes[i].parent, <<>>))
             stored == IF code = <<>> THEN <<"0">> ELSE code
             c == nodes[i].ch
         IN BuildCodesLoop(nodes, n, i + 1,
                [x \in DOMAIN codeOf \cup {c} |-> IF x = c THEN stored ELSE codeOf[x]])
    ELSE codeOf

buildCodes(nodes, n) == BuildCodesLoop(nodes, n, 1, <<>>)

\* HuffmanTree::HuffmanTree(chars, weights), for arguments build accepts.
HuffmanTree(chars, weights) ==
    LET nodes == build(chars, weights)[2]
    IN [nodes |-> nodes, n |-> Len(chars), codeOf |-> buildCodes(nodes, Len(chars))]

\* Encode(c): <<"ok", code>> or a throw for a character without a code.
Encode(tree, c) ==
    IF c \in DOMAIN tree.codeOf THEN <<"ok", tree.codeOf[c]>> ELSE <<"throw", <<>>>>

RECURSIVE EncodeLoop(_, _, _)
EncodeLoop(tree, text, out) ==
    IF text = <<>> THEN <<"ok", out>>
    ELSE LET e == Encode(tree, Head(text))
         IN IF e[1] = "throw" THEN e ELSE EncodeLoop(tree, Tail(text), out \o e[2])

EncodeString(tree, text) == EncodeLoop(tree, text, <<>>)

\* The for of Decode over bits, then the test that it ended at the root.
RECURSIVE DecodeLoop(_, _, _, _, _)
DecodeLoop(nodes, root, cur, bits, out) ==
    IF bits = <<>>
    THEN IF cur # root THEN <<"throw", <<>>>> ELSE <<"ok", out>>
    ELSE IF Head(bits) \notin {"0", "1"} THEN <<"throw", <<>>>>
    ELSE LET next == IF Head(bits) = "0" THEN nodes[cur].left ELSE nodes[cur].right
         IN IF nodes[next].isLeaf
            THEN DecodeLoop(nodes, root, root, Tail(bits), Append(out, nodes[next].ch))
            ELSE DecodeLoop(nodes, root, next, Tail(bits), out)

Decode(tree, bits) ==
    LET root == Cardinality(DOMAIN tree.nodes) - 1
    IN DecodeLoop(tree.nodes, root, root, bits, <<>>)

\* Alphabets: sequences of distinct characters, 1..MaxHuffChars of them.
HuffAlphabets ==
    {chars \in SeqsUpTo(HuffChars, MaxHuffChars) :
        /\ Len(chars) >= 1
        /\ \A i, j \in 1..Len(chars) : i # j => chars[i] # chars[j]}

HuffInit ==
    /\ \E chars \in HuffAlphabets :
       \E weights \in [1..Len(chars) -> 1..MaxWeight] :
          huffTree = HuffmanTree(chars, weights)
    /\ huffText = <<>>
    /\ huffBits = NotRun
    /\ huffBack = NotRun

HuffIdle ==
    /\ huffTree = [nodes |-> <<>>, n |-> 0, codeOf |-> <<>>]
    /\ huffText = <<>>
    /\ huffBits = NotRun
    /\ huffBack = NotRun

\* bits = ht.EncodeString(text)
CallEncodeString ==
    /\ \E text \in SeqsUpTo(HuffChars, MaxHuffText) :
        /\ huffText' = text
        /\ huffBits' = EncodeString(huffTree, text)
    /\ huffBack' = NotRun
    /\ UNCHANGED <<huffTree, huffOthers>>

\* back = ht.Decode(bits), reached when EncodeString returned.
CallDecode ==
    /\ huffBits # NotRun
    /\ huffBits[1] = "ok"
    /\ huffBack = NotRun
    /\ huffBack' = Decode(huffTree, huffBits[2])
    /\ UNCHANGED <<huffTree, huffText, huffBits, huffOthers>>

HuffNext == CallEncodeString \/ CallDecode

\* C10: for every non-empty alphabet and every text over it,
\* Decode(EncodeString(text)) returns text.
C10_DecodeRoundTrip ==
    huffBack # NotRun => huffBack = <<"ok", huffText>>

\* With two or more characters the round trip returns the text.
C10_RoundTripTwoOrMore ==
    (huffBack # NotRun /\ huffTree.n >= 2) => huffBack = <<"ok", huffText>>

(***************************************************************************)
(* 矩阵.cpp: TriSparseMatrix.  A matrix object is [triElems, maxSize, rows, *)
(* cols, num] with triElems a function over 0..maxSize-1 of triples        *)
(* [row, col, value]; the slots at num and above keep whatever was last    *)
(* written to them.                                                        *)
(***************************************************************************)
\* rows + cols of the matrices built is at most MaxShape.
MaxShape == 4
\* The size argument of the constructor; a negative size is taken as 0.
TriSizes == {-1, 0, 1, 2, 3}
SparseValues == {0, 1, 2}

\* Triple() and Triple(r, c, v)
DefaultTriple == [row |-> 0, col |-> 0, value |-> 0]
Triple(r, c, v) == [row |-> r, col |-> c, value |-> v]

\* (maxSize > 0) ? new Triple<ElemType>[maxSize] : nullptr
NewTriples(maxSize) == [k \in 0..(maxSize - 1) |-> DefaultTriple]

\* TriSparseMatrix(rs, cs, size)
TriSparseMatrix(rs, cs, size) ==
    LET maxSize == IF size < 0 THEN 0 ELSE size
    IN [triElems |-> NewTriples(maxSize), maxSize |-> maxSize,
        rows |-> rs, cols |-> cs, num |-> 0]

\* The search comparing rows only, without the tie-break on the column.
RECURSIVE SetElemSearchRowOnly(_, _, _, _)
SetElemSearchRowOnly(m, r, c, pos) ==
    IF pos >= 0 /\ r < m.triElems[pos].row
    THEN SetElemSearchRowOnly(m, r, c, pos - 1)
    ELSE pos

\* The search for of SetElem: the last pos whose triple is not after (r, c).
RECURSIVE SetElemSearch(_, _, _, _)
SetElemSearch(m, r, c, pos) ==
    IF pos >= 0 /\ (r < m.triElems[pos].row
                    \/ (r = m.triElems[pos].row /\ c < m.triElems[pos].col))
    THEN SetElemSearch(m, r, c, pos - 1)
    ELSE pos

\* for (k = pos+1; k < num; ++k) triElems[k-1] = triElems[k]
RECURSIVE ShiftDown(_, _, _)
ShiftDown(triElems, k, num) ==
    IF k < num
    THEN ShiftDown([triElems EXCEPT ![k - 1] = triElems[k]], k + 1, num)
    ELSE triElems

\* for (k = num-1; k > pos; --k) triElems[k+1] = triElems[k]
RECURSIVE ShiftUp(_, _, _)
ShiftUp(triElems, k, pos) ==
    IF k > pos
    THEN ShiftUp([triElems EXCEPT ![k + 1] = triElems[k]], k - 1, pos)
    ELSE triElems

\* TriSparseMatrix::SetElem: <<matrix, returned flag>>.
SetElem(m, r, c, v) ==
    IF r < 1 \/ r > m.rows \/ c < 1 \/ c > m.cols THEN <<m, FALSE>>
    ELSE LET pos == SetElemSearch(m, r, c, m.num - 1)
         IN IF pos >= 0 /\ m.triElems[pos].row = r /\ m.triElems[pos].col = c
            THEN IF v = 0
                 THEN <<[m EXCEPT !.triElems = ShiftDown(m.triElems, pos + 1, m.num),
                                  !.num = m.num - 1], TRUE>>
                 ELSE <<[m EXCEPT !.triElems[pos].value = v], TRUE>>
            ELSE IF v = 0 THEN <<m, TRUE>>
                 ELSE IF m.num >= m.maxSize THEN <<m, FALSE>>
                 ELSE <<[m EXCEPT !.triElems =
                                     [ShiftUp(m.triElems, m.num - 1, pos)
                                        EXCEPT ![pos + 1] = Triple(r, c, v)],
                                  !.num = m.num + 1], TRUE>>

\* The for of GetElem: the value found, or the default 0.
RECURSIVE GetElemLoop(_, _, _, _)
GetElemLoop(m, r, c, k) ==
    IF k < m.num
    THEN IF m.triElems[k].row = r /\ m.triElems[k].col = c
         THEN m.triElems[k].value
         ELSE IF m.triElems[k].row > r
                 \/ (m.triElems[k].row = r /\ m.triElems[k].col > c)
         THEN 0
         ELSE GetElemLoop(m, r, c, k + 1)
    ELSE 0

\* TriSparseMatrix::GetElem: <<returned flag, v>>, v untouched (0 here) on false.
GetElem(m, r, c) ==
    IF r < 1 \/ r > m.rows \/ c < 1 \/ c > m.cols THEN <<FALSE, 0>>
    ELSE <<TRUE, GetElemLoop(m, r, c, 0)>>

\* The head both transposes share: dest takes the swapped shape and a new array.
TransposeHead(source) ==
    [triElems |-> NewTriples(source.maxSize), maxSize |-> source.maxSize,
     rows |-> source.cols, cols |-> source.rows, num |-> source.num]

\* dest.triElems[dp] = (col, row, value) of source.triElems[s]
Moved(triElems, dp, t) ==
    [triElems EXCEPT ![dp] = [row |-> t.col, col |-> t.row, value |-> t.value]]

\* The nested fors of SimpleTranspose: col = 1..cols, s = 0..num-1.
RECURSIVE SimpleLoop(_, _, _, _, _)
SimpleLoop(source, triElems, col, s, destPos) ==
    IF col <= source.cols
    THEN IF s < source.num
         THEN IF source.triElems[s].col = col
              THEN SimpleLoop(source, Moved(triElems, destPos, source.triElems[s]),
                              col, s + 1, destPos + 1)
              ELSE SimpleLoop(source, triElems, col, s + 1, destPos)
         ELSE SimpleLoop(source, triElems, col + 1, 0, destPos)
    ELSE triElems

\* TriSparseMatrix::SimpleTranspose(source, dest), dest another object: the new dest.
SimpleTranspose(source) ==
    LET dest == TransposeHead(source)
    IN IF dest.num = 0 THEN dest
       ELSE [dest EXCEPT !.triElems = SimpleLoop(source, dest.triElems, 1, 0, 0)]

\* for (s = 0; s < num; ++s) ++cNum[source.triElems[s].col]
RECURSIVE CountCols(_, _, _)
CountCols(source, cNum, s) ==
    IF s < source.num
    THEN CountCols(source,
                   [cNum EXCEPT ![source.triElems[s].col] = cNum[source.triElems[s].col] + 1],
                   s + 1)
    ELSE cNum

\* The start positions advanced by the column's own count, cNum[col].
RECURSIVE StartPositionsOwnCount(_, _, _, _)
StartPositionsOwnCount(source, cNum, cPos, col) ==
    IF col <= source.cols
    THEN StartPositionsOwnCount(source, cNum,
                                [cPos EXCEPT ![col] = cPos[col - 1] + cNum[col]], col + 1)
    ELSE cPos

\* for (col = 2; col <= cols; ++col) cPos[col] = cPos[col-1] + cNum[col-1]
RECURSIVE StartPositions(_, _, _, _)
StartPositions(source, cNum, cPos, col) ==
    IF col <= source.cols
    THEN StartPositions(source, cNum,
                        [cPos EXCEPT ![col] = cPos[col - 1] + cNum[col - 1]], col + 1)
    ELSE cPos

\* The moving for of FastTranspose, dp = cPos[col]++.
RECURSIVE FastLoop(_, _, _, _)
FastLoop(source, triElems, cPos, s) ==
    IF s < source.num
    THEN LET col == source.triElems[s].col
         IN FastLoop(source, Moved(triElems, cPos[col], source.triElems[s]),
                     [cPos EXCEPT ![col] = cPos[col] + 1], s + 1)
    ELSE triElems

\* TriSparseMatrix::FastTranspose(source, dest), dest another object: the new dest.
FastTranspose(source) ==
    LET dest == TransposeHead(source)
        zeros == [col \in 0..source.cols |-> 0]
        cNum == CountCols(source, zeros, 0)
        cPos == StartPositions(source, cNum, [zeros EXCEPT ![1] = 0], 2)
    IN IF dest.num = 0 THEN dest
       ELSE [dest EXCEPT !.triElems = FastLoop(source, dest.triElems, cPos, 0)]

Cells(rs, cs) == (1..rs) \X (1..cs)

SparseInit ==
    /\ \E rs \in 0..MaxShape : \E cs \in 0..(MaxShape - rs) : \E size \in TriSizes :
          /\ sm = TriSparseMatrix(rs, cs, size)
          /\ smDense = [cell \in Cells(rs, cs) |-> 0]
    /\ smOp = "new"
    /\ smRet = TRUE
    /\ destSimple = NotRun
    /\ destFast = NotRun

SparseIdle ==
    /\ sm = TriSparseMatrix(0, 0, 0)
    /\ smDense = <<>>
    /\ smOp = "new"
    /\ smRet = TRUE
    /\ destSimple = NotRun
    /\ destFast = NotRun

\* ok = sm.SetElem(r, c, v); smDense keeps the latest value a true call gave
\* to each cell, and the dest of an earlier transpose is no longer looked at.
CallSetElem ==
    /\ \E r \in 0..(sm.rows + 1) : \E c \in 0..(sm.cols + 1) : \E v \in SparseValues :
        LET res == SetElem(sm, r, c, v)
        IN /\ sm' = res[1]
           /\ smRet' = res[2]
           /\ smDense' = IF res[2] /\ <<r, c>> \in DOMAIN smDense
                         THEN [smDense EXCEPT ![<<r, c>>] = v]
                         ELSE smDense
    /\ smOp' = "SetElem"
    /\ destSimple' = NotRun
    /\ destFast' = NotRun
    /\ UNCHANGED sparseOthers

\* TriSparseMatrix::SimpleTranspose(sm, dest)
CallSimpleTranspose ==
    /\ destSimple = NotRun
    /\ destSimple' = Ret(SimpleTranspose(sm))
    /\ UNCHANGED <<sm, smDense, smOp, smRet, destFast, sparseOthers>>

\* TriSparseMatrix::FastTranspose(sm, dest)
CallFastTranspose ==
    /\ destFast = NotRun
    /\ destFast' = Ret(FastTranspose(sm))
    /\ UNCHANGED <<sm, smDense, smOp, smRet, destSimple, sparseOthers>>

SparseNext == CallSetElem \/ CallSimpleTranspose \/ CallFastTranspose

TripleLess(a, b) == a.row < b.row \/ (a.row = b.row /\ a.col < b.col)

StrictlyOrdered(m) ==
    \A k \in 0..(m.num - 2) : TripleLess(m.triElems[k], m.triElems[k + 1])

TriplesOf(m) ==
    {<<m.triElems[k].row, m.triElems[k].col, m.triElems[k].value>> : k \in 0..(m.num - 1)}

\* C11: after any sequence of SetElem calls the triple table is strictly
\* increasing in (row, col), holds no zero value, has 0 <= num <= maxSize, and
\* represents exactly the matrix of the latest values that true SetElem calls
\* gave to each in-range cell (zero if none), which is what GetElem returns.
C11_TripleTable ==
    /\ 0 <= sm.num /\ sm.num <= sm.maxSize
    /\ StrictlyOrdered(sm)
    /\ \A k \in 0..(sm.num - 1) : sm.triElems[k].value # 0
    /\ DOMAIN smDense = Cells(sm.rows, sm.cols)
    /\ TriplesOf(sm) =
         {<<cell[1], cell[2], smDense[cell]>> : cell \in {x \in DOMAIN smDense : smDense[x] # 0}}
    /\ \A cell \in DOMAIN smDense : GetElem(sm, cell[1], cell[2]) = <<TRUE, smDense[cell]>>
    /\ \A r \in {0, sm.rows + 1} : \A c \in 0..(sm.cols + 1) : ~GetElem(sm, r, c)[1]

\* A true SetElem on a 2x2 matrix whose table of size 3 was full and then had
\* a triple deleted: two triples remain, with a modified value among them.
C11_Witness ==
    /\ smOp = "SetElem" /\ smRet
    /\ sm.rows = 2 /\ sm.cols = 2 /\ sm.maxSize = 3
    /\ sm.num = 2
    /\ sm.triElems[2].value # 0
    /\ sm.triElems[0].value = 2

\* dest is source transposed: shape swapped, num kept, the triples (c, r, v)
\* of the source triples (r, c, v) in strictly increasing (row, col) order.
IsTransposeOf(dest, source) ==
    /\ dest.rows = source.cols
    /\ dest.cols = source.rows
    /\ dest.num = source.num
    /\ StrictlyOrdered(dest)
    /\ TriplesOf(dest) = {<<t[2], t[1], t[3]>> : t \in TriplesOf(source)}

\* C12: for a source with strictly increasing triples and a distinct dest,
\* SimpleTranspose and FastTranspose produce the same dest, the transpose of
\* source with its triples in strictly increasing (row, col) order.
C12_TransposesAgree ==
    StrictlyOrdered(sm) =>
        /\ destSimple # NotRun => IsTransposeOf(destSimple[1], sm)
        /\ destFast # NotRun => IsTransposeOf(destFast[1], sm)
        /\ (destSimple # NotRun /\ destFast # NotRun) => destSimple = destFast

\* Both transposes ran on a source of three triples whose column order differs
\* from its row order, so the transpose has to reorder them.
C12_Witness ==
    /\ destSimple # NotRun /\ destFast # NotRun
    /\ sm.num = 3 /\ sm.rows >= 2 /\ sm.cols >= 2
    /\ StrictlyOrdered(sm)
    /\ \E k \in 0..1 : sm.triElems[k].col > sm.triElems[k + 1].col

(***************************************************************************)
(* 矩阵.cpp: TridiagonalMatrix.  The object is [n, buf] with buf a function *)
(* over 0..3n-3; a call returns <<"ok", v>> or the exception it throws.    *)
(***************************************************************************)
MaxTdN == 3
TdValues == {0, 1}

Abs(x) == IF x < 0 THEN -x ELSE x

\* TridiagonalMatrix(n_, init) with init = ElemType{} = 0
TridiagonalMatrix(n_) ==
    [n |-> n_, buf |-> [k \in 0..((IF n_ >= 1 THEN 3 * n_ - 2 ELSE 0) - 1) |-> 0]]

\* The middle rows placed one slot further on, at 3i - 3 + (j - (i-1)).
index_MiddleShifted(n, i, j) ==
    IF i < 1 \/ i > n \/ j < 1 \/ j > n THEN <<"out_of_range", 0>>
    ELSE IF Abs(i - j) > 1 THEN <<"logic_error", 0>>
    ELSE IF i = 1 THEN <<"ok", j - 1>>
    ELSE IF i = n THEN <<"ok", (3 * n - 4) + (j - (n - 1))>>
    ELSE <<"ok", 3 * i - 3 + (j - (i - 1))>>

\* TridiagonalMatrix::index_
index_(n, i, j) ==
    IF i < 1 \/ i > n \/ j < 1 \/ j > n THEN <<"out_of_range", 0>>
    ELSE IF Abs(i - j) > 1 THEN <<"logic_error", 0>>
    ELSE IF i = 1 THEN <<"ok", j - 1>>
    ELSE IF i = n THEN <<"ok", (3 * n - 4) + (j - (n - 1))>>
    ELSE <<"ok", 3 * i - 4 + (j - (i - 1))>>

\* A read or write of buf[k]: outside the vector it is undefined behaviour.
InBuf(m, k) == k \in DOMAIN m.buf

\* TridiagonalMatrix::get
get(m, i, j) ==
    IF i < 1 \/ i > m.n \/ j < 1 \/ j > m.n THEN <<"out_of_range", 0>>
    ELSE IF Abs(i - j) > 1 THEN <<"ok", 0>>
    ELSE LET k == IF i = 1 THEN j - 1
                  ELSE IF i = m.n THEN (3 * m.n - 4) + (j - (m.n - 1))
                  ELSE 3 * i - 4 + (j - (i - 1))
         IN IF InBuf(m, k) THEN <<"ok", m.buf[k]>> ELSE <<"undefined", k>>

Band(n) == {cell \in (1..n) \X (1..n) : Abs(cell[1] - cell[2]) <= 1}

TdInit ==
    /\ \E n_ \in 0..MaxTdN :
          /\ td = TridiagonalMatrix(n_)
          /\ tdDense = [cell \in Band(n_) |-> 0]
    /\ tdOp = "new"
    /\ tdRes = NotRun

TdIdle ==
    /\ td = TridiagonalMatrix(0)
    /\ tdDense = <<>>
    /\ tdOp = "new"
    /\ tdRes = NotRun

\* m.at(i, j) = v: index_ throws, or buf[index_(i, j)] is assigned; tdDense
\* keeps the value last assigned through each band position.
CallAt ==
    /\ \E i \in 0..(td.n + 1) : \E j \in 0..(td.n + 1) : \E v \in TdValues :
        LET k == index_(td.n, i, j)
        IN /\ tdRes' = IF k[1] = "ok" /\ ~InBuf(td, k[2]) THEN <<"undefined", k[2]>> ELSE k
           /\ td' = IF k[1] = "ok" /\ InBuf(td, k[2])
                    THEN [td EXCEPT !.buf[k[2]] = v] ELSE td
           /\ tdDense' = IF k[1] = "ok" THEN [tdDense EXCEPT ![<<i, j>>] = v] ELSE tdDense
    /\ tdOp' = "at"
    /\ UNCHANGED tdOthers

\* v = m.get(i, j)
CallGet ==
    /\ \E i \in 0..(td.n + 1) : \E j \in 0..(td.n + 1) :
        tdRes' = get(td, i, j)
    /\ tdOp' = "get"
    /\ UNCHANGED <<td, tdDense, tdOthers>>

TdNext == CallAt \/ CallGet

\* C13: for every n >= 1 index_ maps the band positions one-to-one onto the
\* linear indices 0..3n-3 of the buffer of 3n-2 elements: no two band
\* elements share a slot (each reads back the value last assigned to it) and
\* no band access falls outside the buffer.
C13_BandIndexBijection ==
    td.n >= 1 =>
        /\ DOMAIN td.buf = 0..(3 * td.n - 3)
        /\ \A cell \in Band(td.n) : index_(td.n, cell[1], cell[2])[1] = "ok"
        /\ {index_(td.n, cell[1], cell[2])[2] : cell \in Band(td.n)} = 0..(3 * td.n - 3)
        /\ \A a, b \in Band(td.n) :
              index_(td.n, a[1], a[2]) = index_(td.n, b[1], b[2]) => a = b
        /\ \A cell \in Band(td.n) : get(td, cell[1], cell[2]) = <<"ok", tdDense[cell]>>
        /\ tdRes # NotRun => tdRes[1] # "undefined"

\* An assignment through at() to the last band element of a 3x3 matrix, slot
\* 3n-3 = 6, after the middle row was written.
C13_Witness ==
    /\ td.n = 3
    /\ tdOp = "at"
    /\ tdRes = <<"ok", 6>>
    /\ tdDense[<<3, 3>>] = 1
    /\ tdDense[<<2, 1>>] = 1 /\ tdDense[<<2, 3>>] = 1 /\ tdDense[<<3, 2>>] = 0

(***************************************************************************)
(* 有向无环图.cpp: topologicalSort.  An AdjList is a function over 0..n-1   *)
(* of sequences of edges [to, weight].                                     *)
(***************************************************************************)
MaxVertices == 4
MaxDagEdges == 4

Edge(t, w) == [to |-> t, weight |-> w]

\* AdjList g(n)
NewAdjList(n) == [u \in 0..(n - 1) |-> <<>>]

GraphSize(graph) == Cardinality(DOMAIN graph)

\* The edges of graph as <<u, k>>: edge k of the list of u.
EdgeSlots(graph) == UNION {{<<u, k>> : k \in 1..Len(graph[u])} : u \in DOMAIN graph}

EdgeCount(graph) == Cardinality(EdgeSlots(graph))

\* Step 1 of topologicalSort: ++inDegree[e.to] for edge k of every vertex u.
RECURSIVE CountInDegree(_, _, _, _, _)
CountInDegree(graph, n, u, k, inDegree) ==
    IF u < n
    THEN IF k <= Len(graph[u])
         THEN CountInDegree(graph, n, u, k + 1,
                            [inDegree EXCEPT ![graph[u][k].to] = inDegree[graph[u][k].to] + 1])
         ELSE CountInDegree(graph, n, u + 1, 1, inDegree)
    ELSE inDegree

\* Step 2 pushing every vertex 0..n-1, whatever its in-degree.
RECURSIVE PushEveryVertex(_, _, _, _)
PushEveryVertex(inDegree, n, v, q) ==
    IF v < n
    THEN PushEveryVertex(inDegree, n, v + 1, Append(q, v))
    ELSE q

\* Step 2: the vertices of in-degree 0 pushed in the order 0..n-1.
RECURSIVE PushZeroInDegree(_, _, _, _)
PushZeroInDegree(inDegree, n, v, q) ==
    IF v < n
    THEN PushZeroInDegree(inDegree, n, v + 1, IF inDegree[v] = 0 THEN Append(q, v) ELSE q)
    ELSE q

\* The inner for of step 3: if (--inDegree[w] == 0) q.push(w): <<inDegree, q>>.
RECURSIVE RemoveOutEdges(_, _, _, _, _)
RemoveOutEdges(graph, v, k, inDegree, q) ==
    IF k <= Len(graph[v])
    THEN LET w == graph[v][k].to
             dec == [inDegree EXCEPT ![w] = inDegree[w] - 1]
         IN RemoveOutEdges(graph, v, k + 1, dec, IF dec[w] = 0 THEN Append(q, w) ELSE q)
    ELSE <<inDegree, q>>

\* The while of step 3: the topoOrder it leaves.
RECURSIVE DrainQueue(_, _, _, _)
DrainQueue(graph, inDegree, q, topoOrder) ==
    IF q # <<>>
    THEN LET v == Head(q)
             r == RemoveOutEdges(graph, v, 1, inDegree, Tail(q))
         IN DrainQueue(graph, r[1], r[2], Append(topoOrder, v))
    ELSE topoOrder

\* topologicalSort(graph, topoOrder): <<returned flag, topoOrder>>.
topologicalSort(graph, topoOrder) ==
    LET n == GraphSize(graph)
        inDegree == CountInDegree(graph, n, 0, 1, [v \in 0..(n - 1) |-> 0])
        q == PushZeroInDegree(inDegree, n, 0, <<>>)
        order == DrainQueue(graph, inDegree, q, topoOrder)
    IN <<~(Len(order) < n), order>>

TopoInit ==
    /\ \E n \in 0..MaxVertices : dag = NewAdjList(n)
    /\ topoRes = NotRun

TopoIdle ==
    /\ dag = NewAdjList(0)
    /\ topoRes = NotRun

\* dag[u].push_back(Edge(v, 1)), which leaves an earlier result behind.
AddDagEdge ==
    /\ EdgeCount(dag) < MaxDagEdges
    /\ \E u \in DOMAIN dag : \E v \in DOMAIN dag :
          dag' = [dag EXCEPT ![u] = Append(dag[u], Edge(v, 1))]
    /\ topoRes' = NotRun
    /\ UNCHANGED topoOthers

\* vector<int> topoOrder; ok = topologicalSort(dag, topoOrder)
CallTopologicalSort ==
    /\ topoRes = NotRun
    /\ topoRes' = topologicalSort(dag, <<>>)
    /\ UNCHANGED <<dag, topoOthers>>

TopoNext == AddDagEdge \/ CallTopologicalSort

Successors(graph, S) == {graph[e[1]][e[2]].to : e \in {x \in EdgeSlots(graph) : x[1] \in S}}

\* The vertices reached from S by zero or more edges.
RECURSIVE ReachedFrom(_, _)
ReachedFrom(graph, S) ==
    LET T == S \cup Successors(graph, S)
    IN IF T = S THEN S ELSE ReachedFrom(graph, T)

HasCycle(graph) ==
    \E v \in DOMAIN graph : v \in ReachedFrom(graph, Successors(graph, {v}))

Position(order, v) == CHOOSE p \in 1..Len(order) : order[p] = v

\* order holds every vertex exactly once, and u before v for every edge u -> v.
IsTopologicalOrder(graph, order) ==
    /\ Len(order) = GraphSize(graph)
    /\ {order[p] : p \in 1..Len(order)} = DOMAIN graph
    /\ \A e \in EdgeSlots(graph) :
          Position(order, e[1]) < Position(order, graph[e[1]][e[2]].to)

\* C14: for every directed graph and an initially empty topoOrder,
\* topologicalSort returns true iff the graph has no directed cycle, and then
\* topoOrder holds every vertex exactly once with u before v for every edge.
C14_TopologicalSort ==
    topoRes # NotRun =>
        /\ topoRes[1] <=> ~HasCycle(dag)
        /\ topoRes[1] => IsTopologicalOrder(dag, topoRes[2])

\* topologicalSort returned true on four vertices with four edges whose only
\* topological order is 3, 2, 1, 0.
C14_Witness ==
    /\ topoRes # NotRun
    /\ topoRes = <<TRUE, <<3, 2, 1, 0>>>>
    /\ EdgeCount(dag) = 4
    /\ ~HasCycle(dag)

\* topologicalSort returned false on a graph that has a cycle, after having
\* output the vertex outside the cycle.
C14_WitnessCycle ==
    /\ topoRes # NotRun
    /\ ~topoRes[1]
    /\ Len(topoRes[2]) = 1
    /\ EdgeCount(dag) = 4
    /\ HasCycle(dag)

(***************************************************************************)
(* 有向无环图.cpp: criticalPath.  A call yields <<"cycle">> when the        *)
(* topological sort fails, otherwise <<"ok", source, sink, ve, vl>>.       *)
(***************************************************************************)
MaxAoeVertices == 3
MaxAoeEdges == 3
AoeWeights == {0, 1, 2}

\* The inner for of step 2: if (ve[u] + w > ve[v]) ve[v] = ve[u] + w.
RECURSIVE RelaxEarliest(_, _, _, _)
RelaxEarliest(graph, u, k, ve) ==
    IF k <= Len(graph[u])
    THEN LET v == graph[u][k].to
             w == graph[u][k].weight
         IN RelaxEarliest(graph, u, k + 1,
                          IF ve[u] + w > ve[v] THEN [ve EXCEPT ![v] = ve[u] + w] ELSE ve)
    ELSE ve

\* Step 2: the forward scan over topoOrder[0..n-1].
RECURSIVE ForwardScan(_, _, _, _)
ForwardScan(graph, topoOrder, idx, ve) ==
    IF idx <= Len(topoOrder)
    THEN ForwardScan(graph, topoOrder, idx + 1, RelaxEarliest(graph, topoOrder[idx], 1, ve))
    ELSE ve

\* The inner for of step 3: if (vl[v] - w < vl[u]) vl[u] = vl[v] - w.
RECURSIVE RelaxLatest(_, _, _, _)
RelaxLatest(graph, u, k, vl) ==
    IF k <= Len(graph[u])
    THEN LET v == graph[u][k].to
             w == graph[u][k].weight
         IN RelaxLatest(graph, u, k + 1,
                        IF vl[v] - w < vl[u] THEN [vl EXCEPT ![u] = vl[v] - w] ELSE vl)
    ELSE vl

\* Step 3: the backward scan over topoOrder[n-1..0].
RECURSIVE BackwardScan(_, _, _, _)
BackwardScan(graph, topoOrder, idx, vl) ==
    IF idx >= 1
    THEN BackwardScan(graph, topoOrder, idx - 1, RelaxLatest(graph, topoOrder[idx], 1, vl))
    ELSE vl

\* criticalPath(graph, source, sink), source and sink vertices of graph.
criticalPath(graph, source, sink) ==
    LET n == GraphSize(graph)
        topo == topologicalSort(graph, <<>>)
        ve0 == [[v \in 0..(n - 1) |-> 0] EXCEPT ![source] = 0]
        ve == ForwardScan(graph, topo[2], 1, ve0)
        vl == BackwardScan(graph, topo[2], n, [v \in 0..(n - 1) |-> ve[sink]])
    IN IF ~topo[1] THEN <<"cycle">> ELSE <<"ok", source, sink, ve, vl>>

AoeInit ==
    /\ \E n \in 0..MaxAoeVertices : aoe = NewAdjList(n)
    /\ cpRes = NotRun

AoeIdle ==
    /\ aoe = NewAdjList(0)
    /\ cpRes = NotRun

\* aoe[u].push_back(Edge(v, w)), which leaves an earlier result behind.
AddAoeEdge ==
    /\ EdgeCount(aoe) < MaxAoeEdges
    /\ \E u \in DOMAIN aoe : \E v \in DOMAIN aoe : \E w \in AoeWeights :
          aoe' = [aoe EXCEPT ![u] = Append(aoe[u], Edge(v, w))]
    /\ cpRes' = NotRun
    /\ UNCHANGED aoeOthers

\* criticalPath(aoe, source, sink)
CallCriticalPath ==
    /\ cpRes = NotRun
    /\ \E source \in DOMAIN aoe : \E sink \in DOMAIN aoe :
          cpRes' = criticalPath(aoe, source, sink)
    /\ UNCHANGED <<aoe, aoeOthers>>

AoeNext == AddAoeEdge \/ CallCriticalPath

Max(S) == CHOOSE x \in S : \A y \in S : y <= x

\* The length of the longest path from u to t in an acyclic graph, -1 if
\* there is no path.
RECURSIVE LongestPath(_, _, _)
LongestPath(graph, u, t) ==
    IF u = t THEN 0
    ELSE LET through == {graph[u][k].weight + LongestPath(graph, graph[u][k].to, t) :
                            k \in {j \in 1..Len(graph[u]) :
                                      LongestPath(graph, graph[u][j].to, t) >= 0}}
         IN IF through = {} THEN -1 ELSE Max(through)

InDegreeZero(graph) ==
    {v \in DOMAIN graph : \A e \in EdgeSlots(graph) : graph[e[1]][e[2]].to # v}

\* C15: for every directed acyclic graph with non-negative edge weights and
\* the given source and sink, the total duration criticalPath reports,
\* ve[sink], is the length of the longest path from source to sink (stated
\* for distinct source and sink joined by a path).
C15_TotalDurationIsLongestPath ==
    (/\ cpRes # NotRun /\ cpRes[1] = "ok"
     /\ cpRes[2] # cpRes[3]
     /\ LongestPath(aoe, cpRes[2], cpRes[3]) >= 0) =>
        cpRes[4][cpRes[3]] = LongestPath(aoe, cpRes[2], cpRes[3])

\* When source is the only vertex without incoming edges, ve[sink] is the
\* length of the longest path from source to sink.
C15_OnlyStartEvent ==
    (cpRes # NotRun /\ cpRes[1] = "ok" /\ InDegreeZero(aoe) = {cpRes[2]}) =>
        cpRes[4][cpRes[3]] = LongestPath(aoe, cpRes[2], cpRes[3])

(***************************************************************************)
(* Specifications                                                          *)
(***************************************************************************)
StrSpecInit ==
    StrInit /\ SortIdle /\ ArrIdle /\ AvlIdle /\ QueueIdle /\ HashIdle
        /\ HuffIdle /\ SparseIdle /\ TdIdle /\ TopoIdle /\ AoeIdle
SpecStr == StrSpecInit /\ [][StrNext]_vars

SortSpecInit ==
    SortInit /\ StrIdle /\ ArrIdle /\ AvlIdle /\ QueueIdle /\ HashIdle
        /\ HuffIdle /\ SparseIdle /\ TdIdle /\ TopoIdle /\ AoeIdle
SpecSort == SortSpecInit /\ [][SortNext]_vars

ArrSpecInit ==
    ArrInit /\ StrIdle /\ SortIdle /\ AvlIdle /\ QueueIdle /\ HashIdle
        /\ HuffIdle /\ SparseIdle /\ TdIdle /\ TopoIdle /\ AoeIdle
SpecArr == ArrSpecInit /\ [][ArrNext]_vars

AvlSpecInit ==
    AvlInit /\ StrIdle /\ SortIdle /\ ArrIdle /\ QueueIdle /\ HashIdle
        /\ HuffIdle /\ SparseIdle /\ TdIdle /\ TopoIdle /\ AoeIdle
SpecAvl == AvlSpecInit /\ [][AvlNext]_vars

QueueSpecInit ==
    QueueInit /\ StrIdle /\ SortIdle /\ ArrIdle /\ AvlIdle /\ HashIdle
        /\ HuffIdle /\ SparseIdle /\ TdIdle /\ TopoIdle /\ AoeIdle
SpecQueue == QueueSpecInit /\ [][QueueNext]_vars

HashSpecInit ==
    HashInit /\ StrIdle /\ SortIdle /\ ArrIdle /\ AvlIdle /\ QueueIdle
        /\ HuffIdle /\ SparseIdle /\ TdIdle /\ TopoIdle /\ AoeIdle
SpecHash == HashSpecInit /\ [][HashNext]_vars

HuffSpecInit ==
    HuffInit /\ StrIdle /\ SortIdle /\ ArrIdle /\ AvlIdle /\ QueueIdle
        /\ HashIdle /\ SparseIdle /\ TdIdle /\ TopoIdle /\ AoeIdle
SpecHuff == HuffSpecInit /\ [][HuffNext]_vars

SparseSpecInit ==
    SparseInit /\ StrIdle /\ SortIdle /\ ArrIdle /\ AvlIdle /\ QueueIdle
        /\ HashIdle /\ HuffIdle /\ TdIdle /\ TopoIdle /\ AoeIdle
SpecSparse == SparseSpecInit /\ [][SparseNext]_vars

TdSpecInit ==
    TdInit /\ StrIdle /\ SortIdle /\ ArrIdle /\ AvlIdle /\ QueueIdle
        /\ HashIdle /\ HuffIdle /\ SparseIdle /\ TopoIdle /\ AoeIdle
SpecTd == TdSpecInit /\ [][TdNext]_vars

TopoSpecInit ==
    TopoInit /\ StrIdle /\ SortIdle /\ ArrIdle /\ AvlIdle /\ QueueIdle
        /\ HashIdle /\ HuffIdle /\ SparseIdle /\ TdIdle /\ AoeIdle
SpecTopo == TopoSpecInit /\ [][TopoNext]_vars

AoeSpecInit ==
    AoeInit /\ StrIdle /\ SortIdle /\ ArrIdle /\ AvlIdle /\ QueueIdle
        /\ HashIdle /\ HuffIdle /\ SparseIdle /\ TdIdle /\ TopoIdle
SpecAoe == AoeSpecInit /\ [][AoeNext]_vars

====
